---- MODULE Spec2Model ----
(***************************************************************************)
(* parseStateMachine (src/src/context/EndpointContext.js, lines 99-450):   *)
(* the conversion of a Step Functions definition into positioned nodes and *)
(* edges.  The run of one invocation is a state machine: the closure's     *)
(* working sets (nodes, edges, processedStates, nodePositions) are the     *)
(* variables, the recursion of processState is an explicit call stack, and *)
(* every loop iteration that can recurse or repeat is one step.            *)
(***************************************************************************)
EXTENDS Integers, Sequences, FiniteSets, TLC

HORIZONTAL_SPACING == 240
VERTICAL_SPACING == 100
PARALLEL_BRANCH_SPACING == 200

\* The node list is recorded up to this length; the Parallel branch walk is
\* the only loop that can exceed it (it then keeps running, unrecorded).
MaxNodes == 12

\* Invocations of parseStateMachine in one behavior of RepeatSpec.
MaxCalls == 3

\* Connection checks started in one behavior of ConnSpec.
MaxChecks == 3

Max(a, b) == IF a >= b THEN a ELSE b

(***************************************************************************)
(* Definitions.  An absent string property is "" (absent and "" are both   *)
(* falsy, and the code only tests truthiness); an absent Catch is <<>>     *)
(* (an empty array is iterated zero times); Choices and Branches carry a   *)
(* presence flag because the dispatch tests their presence.                *)
(***************************************************************************)
NoStates == [n \in {} |-> 0]

St(type, next, end, catch, hasChoices, choices, default, hasBranches, branches) ==
  [Type |-> type, Next |-> next, End |-> end, Catch |-> catch,
   hasChoices |-> hasChoices, Choices |-> choices, Default |-> default,
   hasBranches |-> hasBranches, Branches |-> branches]

Task(next, end, catch) == St("Task", next, end, catch, FALSE, <<>>, "", FALSE, <<>>)
Fail == St("Fail", "", FALSE, <<>>, FALSE, <<>>, "", FALSE, <<>>)
Succeed == St("Succeed", "", FALSE, <<>>, FALSE, <<>>, "", FALSE, <<>>)
Choice(choices, default) == St("Choice", "", FALSE, <<>>, TRUE, choices, default, FALSE, <<>>)
Parallel(branches, next, end) == St("Parallel", next, end, <<>>, FALSE, <<>>, "", TRUE, branches)

\* A choice rule: Variable is the path split at "." (<<>> when absent).
Rule(next, variable, op, val) == [Next |-> next, Variable |-> variable, Op |-> op, Val |-> val]
RuleEq(next) == Rule(next, <<"$", "status">>, "StringEquals", "ok")
RuleGt(next) == Rule(next, <<"$", "n">>, "NumericGreaterThan", "3")
RuleNone(next) == Rule(next, <<>>, "", "")

Branch(startAt, states) == [StartAt |-> startAt, States |-> states]

\* Branch bodies: a chain, a single state, a dangling start, a chain that
\* stops at a missing state, next chains that revisit a state, a branch
\* whose state is itself a Choice.
BrChain == Branch("X", ("X" :> Task("Y", FALSE, <<>>)) @@ ("Y" :> Task("", TRUE, <<>>)))
BrOne == Branch("X", ("X" :> Task("", TRUE, <<>>)))
BrNoStart == Branch("Q", ("X" :> Task("", TRUE, <<>>)))
BrDangling == Branch("X", ("X" :> Task("Q", FALSE, <<>>)))
BrLoop == Branch("X", ("X" :> Task("Y", FALSE, <<"F">>)) @@ ("Y" :> Task("X", FALSE, <<>>)) @@ ("F" :> Fail))
BrSelf == Branch("X", ("X" :> Task("X", FALSE, <<>>)))
BrChoice == Branch("X", ("X" :> Choice(<<RuleEq("Y")>>, "")) @@ ("Y" :> Task("", TRUE, <<>>)))

BranchLists ==
  { <<>>, <<BrOne>>, <<BrChain, BrOne>>, <<BrNoStart>>, <<BrDangling, BrNoStart>>,
    <<BrLoop>>, <<BrOne, BrSelf>>, <<BrChoice>> }

\* "Z" is never a key of the state map: a dangling target.
PoolA ==
  { Task(n, e, c) : n \in {"", "A", "B", "Z"}, e \in BOOLEAN,
                    c \in {<<>>, <<"C">>, <<"B">>, <<"Z", "C">>, <<"B", "C">>} }
  \cup { Choice(cs, d) : cs \in { <<>>, <<RuleEq("B")>>, <<RuleEq("B"), RuleGt("C")>>,
                                  <<RuleEq("B"), RuleNone("B")>>, <<RuleGt("Z"), RuleEq("A")>> },
                         d \in {"", "A", "B", "C", "Z"} }
  \cup { Parallel(bs, n, e) : bs \in BranchLists, n \in {"", "B", "Z"}, e \in BOOLEAN }
  \cup { St("Parallel", "B", TRUE, <<>>, FALSE, <<>>, "", FALSE, <<>>),
         St("Choice", "B", FALSE, <<>>, FALSE, <<>>, "C", FALSE, <<>>) }

PoolB ==
  { Task(n, e, <<>>) : n \in {"", "A", "C"}, e \in BOOLEAN }
  \cup { Task("C", FALSE, <<"C">>), Fail,
         Choice(<<RuleEq("A"), RuleGt("C")>>, "C"),
         Parallel(<<BrOne>>, "C", FALSE) }

PoolC == { Fail, Succeed, Task("A", FALSE, <<>>), Task("", TRUE, <<>>) }

\* State names whose text meets an engine-built id.
CollisionMaps ==
  { ("__START__" :> Task("", TRUE, <<>>)),
    ("P" :> Parallel(<<BrOne>>, "P_branch_0_X", FALSE)) @@ ("P_branch_0_X" :> Succeed),
    ("P" :> Parallel(<<BrOne>>, "", TRUE)) @@ ("__END_P__" :> Succeed),
    ("P" :> Parallel(<<BrNoStart>>, "B", FALSE)) @@ ("P_branch_0_end" :> Succeed) @@ ("B" :> Succeed) }

StateMaps ==
  { ("A" :> a) : a \in PoolA }
  \cup { ("A" :> a) @@ ("B" :> b) @@ ("C" :> c) : a \in PoolA, b \in PoolB, c \in PoolC }

\* Maps tried with an absent ("") and with a dangling ("Z") start state.
SmallMaps ==
  { NoStates,
    ("A" :> Task("", TRUE, <<>>)),
    ("A" :> Task("B", FALSE, <<>>)) @@ ("B" :> Task("A", FALSE, <<>>)) }

Definitions ==
  { [StartAt |-> "A", States |-> m] : m \in StateMaps \cup SmallMaps }
  \cup { [StartAt |-> s, States |-> m] : s \in {"", "Z"}, m \in SmallMaps }
  \cup { [StartAt |-> s, States |-> m] : s \in {"__START__", "P", "P_branch_0_end"}, m \in CollisionMaps }

EmptyDefinition == [StartAt |-> "", States |-> NoStates]

(***************************************************************************)
(* JavaScript values passed as `definition`.  A string is given by what    *)
(* its text is as JSON: not JSON at all, the text of null, of a number, or *)
(* of an object (def is the object).                                       *)
(***************************************************************************)
Value(kind, json, def) == [kind |-> kind, json |-> json, def |-> def]
Undefined == Value("undefined", "", EmptyDefinition)
Null == Value("null", "", EmptyDefinition)
Number == Value("number", "", EmptyDefinition)
Object(def) == Value("object", "", def)
String(json, def) == Value("string", json, def)

StringDefinitions ==
  { [StartAt |-> s, States |-> m] : s \in {"", "A"}, m \in SmallMaps }

Inputs ==
  {Undefined, Null, Number}
  \cup { String(j, EmptyDefinition) : j \in {"invalid", "null", "number"} }
  \cup { String("object", d) : d \in StringDefinitions }
  \cup { Object(d) : d \in Definitions }

\* !definition
Falsy(v) == v.kind \in {"undefined", "null"}

\* JSON.parse(v): the argument is converted to a string first, so undefined
\* is the text "undefined" (a SyntaxError) and null the text "null".
JSONparse(v) ==
  CASE v.kind = "undefined" -> [ok |-> FALSE, value |-> Undefined]
    [] v.kind = "null" -> [ok |-> TRUE, value |-> Null]
    [] v.kind = "string" /\ v.json = "invalid" -> [ok |-> FALSE, value |-> Undefined]
    [] v.kind = "string" /\ v.json = "null" -> [ok |-> TRUE, value |-> Null]
    [] v.kind = "string" /\ v.json = "number" -> [ok |-> TRUE, value |-> Number]
    [] v.kind = "string" /\ v.json = "object" -> [ok |-> TRUE, value |-> Object(v.def)]
    [] OTHER -> [ok |-> TRUE, value |-> v]

VARIABLES
  input,            \* the argument of the invocation
  definition,       \* the parameter `definition` (reassigned by the parse)
  pc,               \* "call" | "run" | "done" (returned) | "threw"
  nodes, edges,     \* the arrays being built
  processedStates,  \* Set of state names
  nodePositions,    \* Map: key -> position, or -> node id (the _end keys)
  stack,            \* activations of processState, innermost last
  overflow,         \* nodes were emitted beyond MaxNodes
  calls,            \* invocations of parseStateMachine made so far
  earlier,          \* what the finished earlier invocations were given and returned
  storage,          \* localStorage[STORAGE_KEY], "" when nothing is saved
  endpoint, isConnected, isChecking, lastError,   \* state of EndpointProvider
  isEditing, tempEndpoint,                        \* state of ConnectionStatus
  mounted,          \* the effects of the first render have run
  inflight,         \* calls of checkConnection waiting at an await
  started,          \* calls of checkConnection made so far
  outcome           \* what each settled call found: call number -> result

connVars == <<storage, endpoint, isConnected, isChecking, lastError, isEditing, tempEndpoint,
              mounted, inflight, started, outcome>>
layoutVars == <<input, definition, pc, nodes, edges, processedStates, nodePositions, stack,
                overflow, calls, earlier>>
vars == <<input, definition, pc, nodes, edges, processedStates, nodePositions, stack, overflow,
         calls, earlier, storage, endpoint, isConnected, isChecking, lastError, isEditing,
         tempEndpoint, mounted, inflight, started, outcome>>

states == definition.def.States
startAt == definition.def.StartAt
Exists(name) == name \in DOMAIN states

DEFAULT_ENDPOINT == "http://localhost:8083"
OtherEndpoint == "http://localhost:9000"
Endpoints == {DEFAULT_ENDPOINT, OtherEndpoint}

\* lastError: null, or a message.
NoError == [null |-> TRUE, message |-> ""]
Message(m) == [null |-> FALSE, message |-> m]
\* m || d, for a message m that may be undefined or empty
OrElse(m, d) == IF m = "" THEN d ELSE m

\* Lines 9-16 and ConnectionStatus.js lines 14-15: the useState initializers.
ConnectionInit ==
  /\ storage \in {"", OtherEndpoint}
  /\ endpoint = OrElse(storage, DEFAULT_ENDPOINT)
  /\ isConnected = FALSE
  /\ isChecking = TRUE
  /\ lastError = NoError
  /\ isEditing = FALSE
  /\ tempEndpoint = endpoint
  /\ mounted = FALSE
  /\ inflight = {}
  /\ started = 0
  /\ outcome = NoStates

Init ==
  /\ ConnectionInit
  /\ input \in Inputs
  /\ definition = input
  /\ pc = "call"
  /\ nodes = <<>>
  /\ edges = <<>>
  /\ processedStates = {}
  /\ nodePositions = NoStates
  /\ stack = <<>>
  /\ overflow = FALSE
  /\ calls = 1
  /\ earlier = <<>>

Node(id, x, y, label, type, isBranch, hasCatch) ==
  [id |-> id, x |-> x, y |-> y, label |-> label, type |-> type,
   isBranch |-> isBranch, hasCatch |-> hasCatch]

Edge(id, source, target, label, dashed, targetHandle) ==
  [id |-> id, source |-> source, target |-> target, label |-> label,
   dashed |-> dashed, targetHandle |-> targetHandle]

Frame(stateName, x, y) ==
  [stateName |-> stateName, x |-> x, y |-> y, nextY |-> y, ph |-> "entry",
   i |-> 0, maxY |-> 0, choiceTargets |-> {}, branchX |-> 0, branchY |-> 0,
   cur |-> "", prev |-> "", await |-> ""]

StartNode == Node("__START__", 0, 0, "Start", "Start", FALSE, FALSE)
StartEdge(target) == Edge("__START__-" \o target, "__START__", target, "", FALSE, "")

\* !startAt || Object.keys(states).length === 0
EmptyGuardMutant(d) == d.StartAt = ""
EmptyGuard(d) == d.StartAt = "" \/ DOMAIN d.States = {}

\* Lines 121-122: new Map(), new Set(); prev is what the names held before.
NewMap(prev) == NoStates
NewSetMutant(prev) == prev
NewSet(prev) == {}

\* Lines 99-142 and the call of line 447.  Every return builds its own
\* arrays; the working sets are created only past the guard of line 112.
ParseStateMachine ==
  /\ pc = "call"
  /\ LET needParse == Falsy(input) \/ input.kind = "string"
         parsed == JSONparse(input)
         d == IF needParse THEN parsed.value ELSE input
     IN IF needParse /\ ~parsed.ok
        THEN \* catch (e): return { nodes: [], edges: [] }
             /\ pc' = "done"
             /\ nodes' = <<>> /\ edges' = <<>>
             /\ UNCHANGED <<definition, stack, processedStates, nodePositions>>
        ELSE IF d.kind \in {"null", "undefined"}
        THEN \* definition.States on null: TypeError, not caught
             /\ pc' = "threw"
             /\ definition' = d
             /\ nodes' = <<>> /\ edges' = <<>>
             /\ UNCHANGED <<stack, processedStates, nodePositions>>
        ELSE IF d.kind # "object" \/ EmptyGuard(d.def)
        THEN /\ pc' = "done"
             /\ definition' = d
             /\ nodes' = <<>> /\ edges' = <<>>
             /\ UNCHANGED <<stack, processedStates, nodePositions>>
        ELSE /\ pc' = "run"
             /\ definition' = d
             /\ nodes' = <<StartNode>>
             /\ edges' = <<StartEdge(d.def.StartAt)>>
             /\ nodePositions' = NewMap(nodePositions)
             /\ processedStates' = NewSet(processedStates)
             /\ stack' = <<Frame(d.def.StartAt, 0, VERTICAL_SPACING)>>
  /\ UNCHANGED <<input, overflow, calls, earlier>>
  /\ UNCHANGED connVars

top == stack[Len(stack)]
state == states[top.stateName]
SetTop(f) == [stack EXCEPT ![Len(stack)] = f]
Call(f, callee) == Append(SetTop(f), callee)

\* The caller resumes with the callee's value: `nextY = processState(...)`
\* or `maxChoiceY = Math.max(maxChoiceY, processState(...))`; the call of
\* line 447 drops it.
Deliver(f, v) ==
  IF f.await = "maxY" THEN [f EXCEPT !.maxY = Max(f.maxY, v), !.await = ""]
  ELSE [f EXCEPT !.nextY = v, !.await = ""]

Returned(v) ==
  LET n == Len(stack) IN
  IF n = 1 THEN <<>> ELSE Append(SubSeq(stack, 1, n - 2), Deliver(stack[n - 1], v))

Return(v) ==
  /\ stack' = Returned(v)
  /\ pc' = IF Len(stack) = 1 THEN "done" ELSE "run"

Pos(x, y) == [isPos |-> TRUE, x |-> x, y |-> y, id |-> ""]
Ref(id) == [isPos |-> FALSE, x |-> 0, y |-> 0, id |-> id]
MapSet(m, k, v) == [q \in DOMAIN m \cup {k} |-> IF q = k THEN v ELSE m[q]]

\* processedStates.has(stateName)
IsProcessedMutant(set, name) == FALSE
IsProcessed(set, name) == name \in set

\* Lines 148-172: the guard, the node of the state, the dispatch of 175/290/352.
ProcessStateEnter ==
  /\ pc = "run"
  /\ top.ph = "entry"
  /\ IF IsProcessed(processedStates, top.stateName) \/ ~Exists(top.stateName)
     THEN /\ Return(top.y)
          /\ UNCHANGED <<nodes, edges, processedStates, nodePositions>>
     ELSE LET n == top.stateName
              nextY == top.y + VERTICAL_SPACING
              kind == IF state.Type = "Parallel" /\ state.hasBranches THEN "parallel"
                      ELSE IF state.Type = "Choice" /\ state.hasChoices THEN "choice"
                      ELSE "regular"
          IN /\ processedStates' = processedStates \cup {n}
             /\ nodes' = Append(nodes, Node(n, top.x, top.y, n, state.Type, FALSE, Len(state.Catch) > 0))
             /\ nodePositions' = MapSet(nodePositions, n, Pos(top.x, top.y))
             /\ stack' = SetTop([top EXCEPT !.nextY = nextY, !.ph = kind, !.i = 0, !.maxY = nextY])
             /\ UNCHANGED <<edges, pc>>
  /\ UNCHANGED <<input, definition, overflow, calls, earlier>>
  /\ UNCHANGED connVars

BranchNodeId(stateName, index, inner) ==
  stateName \o "_branch_" \o ToString(index) \o "_" \o inner
BranchEndKey(stateName, index) ==
  stateName \o "_branch_" \o ToString(index) \o "_end"
BranchStartX(x, branchCount) == x - ((branchCount - 1) * PARALLEL_BRANCH_SPACING) \div 2

\* Lines 183-220: one callback of state.Branches.forEach up to the while
\* loop; top.i is the index of the branch (0-based, as in the code).
ParallelBranch ==
  /\ pc = "run"
  /\ top.ph = "parallel"
  /\ top.i < Len(state.Branches)
  /\ LET index == top.i
         branch == state.Branches[index + 1]
         branchX == BranchStartX(top.x, Len(state.Branches)) + index * PARALLEL_BRANCH_SPACING
         s == branch.StartAt
         id == BranchNodeId(top.stateName, index, s)
     IN IF s # "" /\ s \in DOMAIN branch.States
        THEN /\ nodes' = Append(nodes, Node(id, branchX, top.nextY, s, branch.States[s].Type, TRUE, FALSE))
             /\ edges' = Append(edges, Edge(top.stateName \o "-to-" \o id, top.stateName, id, "", FALSE, ""))
             /\ nodePositions' = MapSet(nodePositions, id, Pos(branchX, top.nextY))
             /\ stack' = SetTop([top EXCEPT !.ph = "walk", !.branchX = branchX,
                                            !.branchY = top.nextY + VERTICAL_SPACING,
                                            !.cur = s, !.prev = id])
        ELSE /\ stack' = SetTop([top EXCEPT !.i = index + 1])
             /\ UNCHANGED <<nodes, edges, nodePositions>>
  /\ UNCHANGED <<input, definition, pc, processedStates, overflow, calls, earlier>>
  /\ UNCHANGED connVars

\* Lines 222-264: one test of the while loop and either its body or, when
\* the test (or the break of line 254) leaves the loop, lines 258-264.
BranchWalk ==
  /\ pc = "run"
  /\ top.ph = "walk"
  /\ LET index == top.i
         branchStates == state.Branches[index + 1].States
         nextStateName == branchStates[top.cur].Next
         id == BranchNodeId(top.stateName, index, nextStateName)
     IN IF nextStateName # "" /\ nextStateName \in DOMAIN branchStates
        THEN IF Len(nodes) < MaxNodes
             THEN /\ nodes' = Append(nodes, Node(id, top.branchX, top.branchY, nextStateName,
                                                 branchStates[nextStateName].Type, TRUE, FALSE))
                  /\ edges' = Append(edges, Edge(top.prev \o "-to-" \o id, top.prev, id, "", FALSE, ""))
                  /\ nodePositions' = MapSet(nodePositions, id, Pos(top.branchX, top.branchY))
                  /\ stack' = SetTop([top EXCEPT !.prev = id, !.cur = nextStateName,
                                                 !.branchY = top.branchY + VERTICAL_SPACING])
                  /\ UNCHANGED overflow
             ELSE \* the loop goes on; what it emits is no longer recorded
                  /\ overflow' = TRUE
                  /\ stack' = SetTop([top EXCEPT !.prev = id, !.cur = nextStateName])
                  /\ UNCHANGED <<nodes, edges, nodePositions>>
        ELSE /\ nodePositions' = MapSet(nodePositions, BranchEndKey(top.stateName, index), Ref(top.prev))
             /\ stack' = SetTop([top EXCEPT !.ph = "parallel", !.i = index + 1,
                                            !.maxY = Max(top.maxY, top.branchY)])
             /\ UNCHANGED <<nodes, edges, overflow>>
  /\ UNCHANGED <<input, definition, pc, processedStates, calls, earlier>>
  /\ UNCHANGED connVars

\* nodePositions.get(key) used as an edge source: a node id, or the position
\* object another node stored under the same key.
SourceOf(v) == IF v.isPos THEN "[object Object]" ELSE v.id

RejoinEdgesMutant(stateName, target, count, index) ==
  LET key == BranchEndKey(stateName, 0)
  IN IF count > 0 /\ key \in DOMAIN nodePositions
     THEN <<Edge(SourceOf(nodePositions[key]) \o "-to-" \o target,
                 SourceOf(nodePositions[key]), target, "", FALSE, "")>>
     ELSE <<>>
RECURSIVE RejoinEdges(_, _, _, _)
RejoinEdges(stateName, target, count, index) ==
  IF index >= count THEN <<>>
  ELSE LET key == BranchEndKey(stateName, index)
           rest == RejoinEdges(stateName, target, count, index + 1)
       IN IF key \in DOMAIN nodePositions
          THEN <<Edge(SourceOf(nodePositions[key]) \o "-to-" \o target,
                      SourceOf(nodePositions[key]), target, "", FALSE, "")>> \o rest
          ELSE rest

\* Lines 268-289, after the last branch.
ParallelRejoin ==
  /\ pc = "run"
  /\ top.ph = "parallel"
  /\ top.i >= Len(state.Branches)
  /\ IF state.Next # ""
     THEN /\ edges' = edges \o RejoinEdges(top.stateName, state.Next, Len(state.Branches), 0)
          /\ stack' = Call([top EXCEPT !.nextY = top.maxY, !.ph = "ret", !.await = "nextY"],
                           Frame(state.Next, top.x, top.maxY))
     ELSE /\ stack' = SetTop([top EXCEPT !.nextY = top.maxY, !.ph = "ret"])
          /\ UNCHANGED edges
  /\ UNCHANGED <<input, definition, pc, nodes, processedStates, nodePositions, overflow, calls, earlier>>
  /\ UNCHANGED connVars

\* Lines 452-473.  varName is the last segment of choice.Variable; the
\* fallback glyph is written "->" here.
getChoiceLabelMutant(choice) == "->"
getChoiceLabel(choice) ==
  LET varName == choice.Variable[Len(choice.Variable)] IN
  IF choice.Variable = <<>> THEN "->"
  ELSE CASE choice.Op = "StringEquals" -> varName \o " = \"" \o choice.Val \o "\""
         [] choice.Op = "BooleanEquals" -> varName \o " = " \o choice.Val
         [] choice.Op = "NumericEquals" -> varName \o " = " \o choice.Val
         [] choice.Op = "NumericGreaterThan" -> varName \o " > " \o choice.Val
         [] choice.Op = "NumericLessThan" -> varName \o " < " \o choice.Val
         [] choice.Op = "NumericGreaterThanEquals" -> varName \o " >= " \o choice.Val
         [] choice.Op = "NumericLessThanEquals" -> varName \o " <= " \o choice.Val
         [] choice.Op = "IsPresent" ->
              IF choice.Val = "true" THEN varName \o " exists" ELSE varName \o " !exists"
         [] OTHER -> "->"

ChoiceStartX(x, st) ==
  LET choiceCount == Len(st.Choices) + (IF st.Default # "" THEN 1 ELSE 0)
  IN x - ((choiceCount - 1) * HORIZONTAL_SPACING) \div 2

\* Lines 299-326: one callback of state.Choices.forEach.
ChoiceRule ==
  /\ pc = "run"
  /\ top.ph = "choice"
  /\ top.i < Len(state.Choices)
  /\ LET index == top.i
         choice == state.Choices[index + 1]
         choiceX == ChoiceStartX(top.x, state) + index * HORIZONTAL_SPACING
         f == [top EXCEPT !.i = index + 1]
     IN IF choice.Next # "" /\ choice.Next \notin top.choiceTargets
        THEN LET g == [f EXCEPT !.choiceTargets = top.choiceTargets \cup {choice.Next}] IN
             /\ edges' = Append(edges,
                  Edge(top.stateName \o "-choice-" \o ToString(index) \o "-" \o choice.Next,
                       top.stateName, choice.Next, getChoiceLabel(choice), FALSE, ""))
             /\ IF ~IsProcessed(processedStates, choice.Next)
                THEN stack' = Call([g EXCEPT !.await = "maxY"], Frame(choice.Next, choiceX, top.nextY))
                ELSE stack' = SetTop(g)
        ELSE /\ stack' = SetTop(f)
             /\ UNCHANGED edges
  /\ UNCHANGED <<input, definition, pc, nodes, processedStates, nodePositions, overflow, calls, earlier>>
  /\ UNCHANGED connVars

\* Lines 328-349, after the last rule.
ChoiceDefault ==
  /\ pc = "run"
  /\ top.ph = "choice"
  /\ top.i >= Len(state.Choices)
  /\ LET defaultX == ChoiceStartX(top.x, state) + Len(state.Choices) * HORIZONTAL_SPACING
         f == [top EXCEPT !.ph = "choiceEnd"]
     IN IF state.Default # "" /\ state.Default \notin top.choiceTargets
        THEN /\ edges' = Append(edges,
                  Edge(top.stateName \o "-default-" \o state.Default,
                       top.stateName, state.Default, "default", TRUE, ""))
             /\ IF ~IsProcessed(processedStates, state.Default)
                THEN stack' = Call([f EXCEPT !.await = "maxY"], Frame(state.Default, defaultX, top.nextY))
                ELSE stack' = SetTop(f)
        ELSE /\ stack' = SetTop(f)
             /\ UNCHANGED edges
  /\ UNCHANGED <<input, definition, pc, nodes, processedStates, nodePositions, overflow, calls, earlier>>
  /\ UNCHANGED connVars

\* Lines 351 and 443: nextY = maxChoiceY; return nextY.
ChoiceEnd ==
  /\ pc = "run"
  /\ top.ph = "choiceEnd"
  /\ Return(top.maxY)
  /\ UNCHANGED <<input, definition, nodes, edges, processedStates, nodePositions, overflow, calls, earlier>>
  /\ UNCHANGED connVars

\* Line 386: targetIsFail && !processedStates.has(catchBlock.Next)
PlaceFailAsideMutant(targetIsFail, processed, target) == targetIsFail
PlaceFailAside(targetIsFail, processed, target) ==
  targetIsFail /\ ~IsProcessed(processed, target)

\* Lines 388-389: the side lane of a Fail catch target, beside (x, y).
FailPosMutant(x, y) == Pos(x, y + VERTICAL_SPACING)
FailPos(x, y) == Pos(x + HORIZONTAL_SPACING, y)

\* Lines 356-404: state.Catch.forEach, from callback k on, over the working
\* sets w = [nodes, edges, processed, positions].
RECURSIVE CatchLoop(_, _, _, _, _, _)
CatchLoop(stateName, catch, x, y, k, w) ==
  IF k > Len(catch) THEN w
  ELSE LET target == catch[k]
           targetIsFail == Exists(target) /\ states[target].Type = "Fail"
           e == Edge(stateName \o "-catch-" \o ToString(k - 1) \o "-" \o target,
                     stateName, target, "error", TRUE,
                     IF targetIsFail THEN "left" ELSE "top")
           side == PlaceFailAside(targetIsFail, w.processed, target)
           failX == FailPos(x, y).x
           failY == FailPos(x, y).y
           w1 == IF target = "" THEN w
                 ELSE [nodes |-> IF side
                                 THEN Append(w.nodes, Node(target, failX, failY, target,
                                                           states[target].Type, FALSE, FALSE))
                                 ELSE w.nodes,
                       edges |-> Append(w.edges, e),
                       processed |-> IF side THEN w.processed \cup {target} ELSE w.processed,
                       positions |-> IF side THEN MapSet(w.positions, target, FailPos(x, y))
                                     ELSE w.positions]
       IN CatchLoop(stateName, catch, x, y, k + 1, w1)

\* Lines 355-419: the catch rules, then the edge to Next and its call.
RegularCatchNext ==
  /\ pc = "run"
  /\ top.ph = "regular"
  /\ LET w == CatchLoop(top.stateName, state.Catch, top.x, top.y, 1,
                        [nodes |-> nodes, edges |-> edges,
                         processed |-> processedStates, positions |-> nodePositions])
         f == [top EXCEPT !.ph = "end"]
     IN /\ nodes' = w.nodes
        /\ processedStates' = w.processed
        /\ nodePositions' = w.positions
        /\ IF state.Next # ""
           THEN /\ edges' = Append(w.edges, Edge(top.stateName \o "-" \o state.Next,
                                                 top.stateName, state.Next, "", FALSE, ""))
                /\ IF ~IsProcessed(w.processed, state.Next)
                   THEN stack' = Call([f EXCEPT !.await = "nextY"], Frame(state.Next, top.x, top.nextY))
                   ELSE stack' = SetTop(f)
           ELSE /\ edges' = w.edges
                /\ stack' = SetTop(f)
  /\ UNCHANGED <<input, definition, pc, overflow, calls, earlier>>
  /\ UNCHANGED connVars

EndNodeId(stateName) == "__END_" \o stateName \o "__"

\* Lines 421-443: the exit marker of a state with End, and the return.
RegularEnd ==
  /\ pc = "run"
  /\ top.ph = "end"
  /\ IF state.End
     THEN LET endNodeId == EndNodeId(top.stateName) IN
          /\ nodes' = Append(nodes, Node(endNodeId, top.x, top.nextY, "End", "End", FALSE, FALSE))
          /\ edges' = Append(edges, Edge(top.stateName \o "-" \o endNodeId,
                                         top.stateName, endNodeId, "", FALSE, ""))
          /\ Return(top.nextY + VERTICAL_SPACING)
     ELSE /\ Return(top.nextY)
          /\ UNCHANGED <<nodes, edges>>
  /\ UNCHANGED <<input, definition, processedStates, nodePositions, overflow, calls, earlier>>
  /\ UNCHANGED connVars

\* Line 443, after a Parallel.
ProcessStateReturn ==
  /\ pc = "run"
  /\ top.ph = "ret"
  /\ Return(top.nextY)
  /\ UNCHANGED <<input, definition, nodes, edges, processedStates, nodePositions, overflow, calls, earlier>>
  /\ UNCHANGED connVars

Next ==
  \/ ParseStateMachine
  \/ ProcessStateEnter
  \/ ParallelBranch
  \/ BranchWalk
  \/ ParallelRejoin
  \/ ChoiceRule
  \/ ChoiceDefault
  \/ ChoiceEnd
  \/ RegularCatchNext
  \/ RegularEnd
  \/ ProcessStateReturn

Spec == Init /\ [][Next]_vars

\* The invocation is synchronous: a step that can be taken is taken.
FairSpec == Spec /\ WF_vars(Next)

\* The value returned (line 105, 113 or 449).
(***************************************************************************)
(* Repeated invocation: fetchStateMachine calls parseStateMachine again    *)
(* with whatever definition the server returned (StateMachineDiagram.js,   *)
(* line 138).  What the previous activation left behind stays where it is  *)
(* until the next activation replaces it.                                  *)
(***************************************************************************)
RepeatInputs ==
  { Object([StartAt |-> "A",
            States |-> ("A" :> Parallel(<<BrChain, BrOne>>, "B", FALSE))
                       @@ ("B" :> Choice(<<RuleEq("A"), RuleGt("C")>>, "C"))
                       @@ ("C" :> Task("", TRUE, <<>>))]),
    Object([StartAt |-> "A",
            States |-> ("A" :> Task("B", FALSE, <<"C">>))
                       @@ ("B" :> Task("", TRUE, <<>>)) @@ ("C" :> Fail)]),
    Object([StartAt |-> "A", States |-> ("A" :> Task("", TRUE, <<>>))]),
    Object([StartAt |-> "A",
            States |-> ("A" :> Task("B", FALSE, <<>>)) @@ ("B" :> Task("A", FALSE, <<>>))]),
    String("object", [StartAt |-> "A", States |-> ("A" :> Task("", TRUE, <<>>))]),
    Null }

ResultOf(p, ns, es) ==
  [returned |-> p = "done", nodes |-> { ns[k] : k \in 1..Len(ns) },
   edges |-> { es[k] : k \in 1..Len(es) }]

Reinvoke ==
  /\ pc \in {"done", "threw"}
  /\ calls < MaxCalls
  /\ earlier' = Append(earlier, [input |-> input, result |-> ResultOf(pc, nodes, edges)])
  /\ calls' = calls + 1
  /\ \E v \in RepeatInputs : input' = v /\ definition' = v
  /\ pc' = "call"
  /\ UNCHANGED <<nodes, edges, processedStates, nodePositions, stack, overflow>>
  /\ UNCHANGED connVars

RepeatInit == Init /\ input \in RepeatInputs
RepeatNext == Next \/ Reinvoke
RepeatSpec == RepeatInit /\ [][RepeatNext]_vars

(***************************************************************************)
(* EndpointProvider and ConnectionStatus.  A call of checkConnection runs  *)
(* to its first await in the step that starts it, and from an await to the *)
(* next await or to its end in the step that settles it.  It reads the     *)
(* endpoint of the render it was created in, which is the current one for  *)
(* the effect, the interval (reset with the endpoint) and the button.      *)
(***************************************************************************)
Check(id, ep, stage) == [id |-> id, endpoint |-> ep, stage |-> stage]
Found(connected, error) == [isConnected |-> connected, lastError |-> error]
ErrorTexts == {"", "boom"}

\* Lines 24-32: up to the await of fetch.
StartCheck(ep) ==
  /\ isChecking' = TRUE
  /\ lastError' = NoError
  /\ started' = started + 1
  /\ inflight' = inflight \cup {Check(started + 1, ep, "fetch")}
  /\ UNCHANGED <<isConnected, outcome>>

\* Lines 34-47 from a settled await to the end: the setters and finally.
Settle(c, connected, error) ==
  /\ isConnected' = connected
  /\ lastError' = error
  /\ isChecking' = FALSE
  /\ inflight' = inflight \ {c}
  /\ outcome' = MapSet(outcome, c.id, Found(connected, error))
  /\ UNCHANGED started

\* Lines 51-59: the effects of the first render.
Mount ==
  /\ ~mounted
  /\ mounted' = TRUE
  /\ StartCheck(endpoint)
  /\ UNCHANGED <<storage, endpoint, isEditing, tempEndpoint>>
  /\ UNCHANGED layoutVars

\* Line 57: setInterval(checkConnection, 30000).
TimerTick ==
  /\ mounted
  /\ started < MaxChecks
  /\ StartCheck(endpoint)
  /\ UNCHANGED <<storage, endpoint, isEditing, tempEndpoint, mounted>>
  /\ UNCHANGED layoutVars

\* ConnectionStatus.js lines 62-66: the refresh button.
ManualRefresh ==
  /\ mounted /\ ~isEditing /\ ~isChecking
  /\ started < MaxChecks
  /\ StartCheck(endpoint)
  /\ UNCHANGED <<storage, endpoint, isEditing, tempEndpoint, mounted>>
  /\ UNCHANGED layoutVars

\* ConnectionStatus.js lines 55-59: the edit button.
StartEditing ==
  /\ mounted /\ ~isEditing
  /\ isEditing' = TRUE
  /\ UNCHANGED <<storage, endpoint, isConnected, isChecking, lastError, tempEndpoint,
                 mounted, inflight, started, outcome>>
  /\ UNCHANGED layoutVars

\* ConnectionStatus.js line 75: onChange of the input.
TypeEndpoint ==
  /\ isEditing
  /\ \E v \in Endpoints : v # tempEndpoint /\ tempEndpoint' = v
  /\ UNCHANGED <<storage, endpoint, isConnected, isChecking, lastError, isEditing,
                 mounted, inflight, started, outcome>>
  /\ UNCHANGED layoutVars

\* ConnectionStatus.js lines 17-20 and updateEndpoint (lines 18-21); a new
\* value of endpoint runs the effect of lines 51-53.
HandleSave ==
  /\ isEditing
  /\ endpoint' = tempEndpoint
  /\ storage' = tempEndpoint
  /\ isEditing' = FALSE
  /\ IF tempEndpoint # endpoint
     THEN started < MaxChecks /\ StartCheck(tempEndpoint)
     ELSE UNCHANGED <<isConnected, isChecking, lastError, inflight, started, outcome>>
  /\ UNCHANGED <<tempEndpoint, mounted>>
  /\ UNCHANGED layoutVars

\* ConnectionStatus.js lines 22-25.
HandleCancel ==
  /\ isEditing
  /\ tempEndpoint' = endpoint
  /\ isEditing' = FALSE
  /\ UNCHANGED <<storage, endpoint, isConnected, isChecking, lastError,
                 mounted, inflight, started, outcome>>
  /\ UNCHANGED layoutVars

\* Lines 28-47: fetch settles: a response that is ok, a response that is
\* not (the call goes on to await response.json()), or a rejection with a
\* message m.
FetchSettles ==
  /\ \E c \in inflight : \E how \in {"ok", "notOk", "rejected"} : \E m \in ErrorTexts :
       /\ c.stage = "fetch"
       /\ CASE how = "ok" -> Settle(c, TRUE, NoError)
            [] how = "notOk" ->
                 /\ inflight' = (inflight \ {c}) \cup {Check(c.id, c.endpoint, "json")}
                 /\ UNCHANGED <<isConnected, isChecking, lastError, started, outcome>>
            [] OTHER -> Settle(c, FALSE, Message(OrElse(m, "Unable to connect")))
  /\ UNCHANGED <<storage, endpoint, isEditing, tempEndpoint, mounted>>
  /\ UNCHANGED layoutVars

\* Lines 38-44: response.json() settles: a body with the message m (or with
\* none), or a rejection with the message m.
JsonSettles ==
  /\ \E c \in inflight : \E parsed \in BOOLEAN : \E m \in ErrorTexts :
       /\ c.stage = "json"
       /\ Settle(c, FALSE, Message(OrElse(m, IF parsed THEN "Connection failed"
                                                     ELSE "Unable to connect")))
  /\ UNCHANGED <<storage, endpoint, isEditing, tempEndpoint, mounted>>
  /\ UNCHANGED layoutVars

ConnInit == Init /\ input = Undefined
ConnNext ==
  \/ Mount
  \/ TimerTick
  \/ ManualRefresh
  \/ StartEditing
  \/ TypeEndpoint
  \/ HandleSave
  \/ HandleCancel
  \/ FetchSettles
  \/ JsonSettles
ConnSpec == ConnInit /\ [][ConnNext]_vars

Result == [nodes |-> nodes, edges |-> edges]
Finished == pc \in {"done", "threw"}

(***************************************************************************)
(* What the claims speak of.                                               *)
(***************************************************************************)
EmptyGraph == [nodes |-> <<>>, edges |-> <<>>]
NodeIds == { nodes[k].id : k \in 1..Len(nodes) }
\* The object the input denotes, when it denotes one.
IsDefinition(v) == v.kind = "object" \/ (v.kind = "string" /\ v.json = "object")
InputStates == input.def.States
InputStartAt == input.def.StartAt

\* C1: in a returned graph every edge's source and every edge's target is
\* the id of a returned node, dangling targets included.
C1_NoDanglingEdges ==
  pc = "done" =>
    \A k \in 1..Len(edges) : edges[k].source \in NodeIds /\ edges[k].target \in NodeIds

\* C2: whatever the input, the invocation returns a graph and never raises
\* an exception to its caller.
C2_NeverThrows == pc # "threw"

\* C3: the inputs undefined, a string that is not JSON, and a definition
\* with an empty state map (whatever its start state) return exactly
\* {nodes: [], edges: []}.
C3_Case ==
  \/ input.kind = "undefined"
  \/ input.kind = "string" /\ input.json = "invalid"
  \/ IsDefinition(input) /\ DOMAIN InputStates = {}
\* C3, stated: once the call has acted on such an input it has returned the
\* empty graph.
C3_EmptyOnMalformed ==
  (pc # "call" /\ C3_Case) => (pc = "done" /\ Result = EmptyGraph)
C3_Witness ==
  /\ pc = "done"
  /\ IsDefinition(input) /\ DOMAIN InputStates = {} /\ InputStartAt = "Z"

\* C4: a definition with a non-empty state map whose start state is absent
\* or is not a key of the map returns the empty graph.
C4_Case ==
  /\ IsDefinition(input) /\ DOMAIN InputStates # {}
  /\ (InputStartAt = "" \/ InputStartAt \notin DOMAIN InputStates)
\* C4, stated on the returned graph.
C4_EmptyOnBadStart ==
  (pc = "done" /\ C4_Case) => Result = EmptyGraph

\* The state names a state of map m hands control to in the main graph.
IsParallel(st) == st.Type = "Parallel" /\ st.hasBranches
IsChoice(st) == st.Type = "Choice" /\ st.hasChoices
Range(seq) == { seq[k] : k \in 1..Len(seq) }
FlowTargets(st) ==
  IF IsParallel(st) THEN {st.Next}
  ELSE IF IsChoice(st) THEN { st.Choices[k].Next : k \in 1..Len(st.Choices) } \cup {st.Default}
  ELSE {st.Next}
CatchTargets(st) == IF IsParallel(st) \/ IsChoice(st) THEN {} ELSE Range(st.Catch)

RECURSIVE Closure(_, _, _)
Closure(m, set, withCatch) ==
  LET step == UNION { FlowTargets(m[s]) \cup (IF withCatch THEN CatchTargets(m[s]) ELSE {}) : s \in set }
      more == set \cup (step \cap DOMAIN m)
  IN IF more = set THEN set ELSE Closure(m, more, withCatch)

\* The main-graph transitions (next, choice, default, catch) reachable from
\* the start state form a cycle.
MainCyclic(m, start) ==
  \E s \in Closure(m, {start} \cap DOMAIN m, TRUE) :
    s \in Closure(m, (FlowTargets(m[s]) \cup CatchTargets(m[s])) \cap DOMAIN m, TRUE)

\* The next chain of a branch, from its start state, comes back to a state.
RECURSIVE ChainRevisits(_, _, _)
ChainRevisits(bs, cur, seen) ==
  IF cur \notin DOMAIN bs THEN FALSE
  ELSE IF cur \in seen THEN TRUE
  ELSE ChainRevisits(bs, bs[cur].Next, seen \cup {cur})
RECURSIVE ChainStates(_, _, _)
ChainStates(bs, cur, seen) ==
  IF cur \notin DOMAIN bs \/ cur \in seen THEN seen
  ELSE ChainStates(bs, bs[cur].Next, seen \cup {cur})
HasRevisitingBranch(m) ==
  \E s \in DOMAIN m : IsParallel(m[s]) /\
    \E k \in 1..Len(m[s].Branches) :
      ChainRevisits(m[s].Branches[k].States, m[s].Branches[k].StartAt, {})

\* Nodes of main-graph state s (lines 159 and 391), and of the branch state
\* `inner` of branch `index` of Parallel p (lines 193 and 229).
MainNodes(ns, s) == { k \in 1..Len(ns) : ~ns[k].isBranch /\ ns[k].id = s /\ ns[k].label = s }
BranchNodes(ns, p, index, inner) ==
  { k \in 1..Len(ns) : ns[k].isBranch /\ ns[k].label = inner /\ ns[k].id = BranchNodeId(p, index, inner) }
EdgesFromTo(a, b) == { k \in 1..Len(edges) : edges[k].source = a /\ edges[k].target = b }

\* C5: a definition whose main-graph transitions form cycles terminates:
\* the recursion is never deeper than the number of states (plus the call
\* being tested), the run finishes, and A.next = B, B.next = A returns the
\* entry node, one node for A, one for B, one edge A->B and one edge B->A.
C5_ABInput ==
  /\ IsDefinition(input) /\ InputStartAt = "A"
  /\ InputStates = ("A" :> Task("B", FALSE, <<>>)) @@ ("B" :> Task("A", FALSE, <<>>))
C5_ABCase ==
  (pc = "done" /\ C5_ABInput) =>
    /\ Len(nodes) = 3
    /\ NodeIds = {"__START__", "A", "B"}
    /\ Cardinality(EdgesFromTo("A", "B")) = 1
    /\ Cardinality(EdgesFromTo("B", "A")) = 1
C5_Depth ==
  (pc = "run" /\ MainCyclic(states, startAt)) =>
    Len(stack) <= Cardinality(DOMAIN states) + 1
C6_BranchStateOnce ==
  \A k \in 1..Len(nodes) : \A j \in 1..Len(nodes) :
    (nodes[k].isBranch /\ nodes[j].isBranch /\ nodes[k].id = nodes[j].id) => k = j
\* C6, stated: no branch state is emitted twice, and the run finishes.
C6_BranchWalkTerminates ==
  /\ []C6_BranchStateOnce
  /\ (pc = "run" /\ HasRevisitingBranch(states)) ~> Finished

\* C7: throughout a run each main-graph state has at most one node, and a
\* node once emitted keeps its place and its (x, y): a state met again (by
\* next, a choice rule, default, a Parallel successor or a catch rule) gets
\* no second node.
C7_OneNodePerState ==
  \A k \in 1..Len(nodes) : Cardinality(MainNodes(nodes, nodes[k].id)) <= 1
C7_Step ==
  /\ Len(nodes') >= Len(nodes)
  /\ \A k \in 1..Len(nodes) : nodes'[k] = nodes[k]
  /\ C7_OneNodePerState'
\* C7, stated: every step keeps the emitted nodes as they are and leaves at
\* most one node per main-graph state.
C7_WriteOnce == [][C7_Step]_vars
\* A Fail state placed in the side lane of a catch rule and then met again
\* as the Next of a state.
C7_Witness ==
  /\ pc = "done"
  /\ \E k \in 1..Len(nodes) : \E e \in 1..Len(edges) : \E f \in 1..Len(edges) :
       /\ nodes[k].type = "Fail" /\ nodes[k].x = HORIZONTAL_SPACING
       /\ edges[e].target = nodes[k].id /\ edges[e].label = "error"
       /\ edges[f].target = nodes[k].id /\ edges[f].label = "" /\ f > e

\* C8: all node ids of the output are pairwise distinct, whatever the state
\* names.
C8_DistinctIds ==
  \A k \in 1..Len(nodes) : \A j \in 1..Len(nodes) : nodes[k].id = nodes[j].id => k = j

\* A valid definition: the start state and every transition target is a
\* key of its state map, a state has a Next or ends the flow, a Choice has
\* rules, a Parallel has branches, each of them valid in itself.
ValidFlat(st, keys) ==
  /\ st.Type \in {"Task", "Choice", "Fail", "Succeed"}
  /\ st.Type = "Task" =>
       /\ (st.Next \in keys /\ ~st.End) \/ (st.Next = "" /\ st.End)
       /\ Range(st.Catch) \subseteq keys
       /\ ~st.hasChoices /\ ~st.hasBranches
  /\ st.Type = "Choice" =>
       /\ st.hasChoices /\ Len(st.Choices) >= 1
       /\ \A k \in 1..Len(st.Choices) : st.Choices[k].Next \in keys
       /\ st.Default \in keys \cup {""}
       /\ st.Next = "" /\ ~st.End
ValidBranch(b) ==
  /\ b.StartAt \in DOMAIN b.States
  /\ \A s \in DOMAIN b.States : ValidFlat(b.States[s], DOMAIN b.States)
ValidState(st, keys) ==
  IF st.Type = "Parallel"
  THEN /\ st.hasBranches /\ Len(st.Branches) >= 1
       /\ \A k \in 1..Len(st.Branches) : ValidBranch(st.Branches[k])
       /\ (st.Next \in keys /\ ~st.End) \/ (st.Next = "" /\ st.End)
  ELSE ValidFlat(st, keys)
Valid(d) ==
  /\ d.StartAt \in DOMAIN d.States
  /\ \A s \in DOMAIN d.States : ValidState(d.States[s], DOMAIN d.States)

\* C9: for a valid definition, every state reachable from the start state
\* by next, choice rules, default and Parallel successors has exactly one
\* node, and every state on the next chain of a branch of a reachable
\* Parallel has exactly one node for that (parallel, branch index): never
\* more than one, and exactly one in the returned graph.
C9_Reachable == Closure(states, {startAt}, FALSE)
C9_BranchStates ==
  { <<p, k - 1, inner>> : p \in { q \in C9_Reachable : IsParallel(states[q]) },
                          k \in 1..2, inner \in {"X", "Y", "F", "Q"} }
C9_OnChain(t) ==
  /\ t[2] < Len(states[t[1]].Branches)
  /\ t[3] \in ChainStates(states[t[1]].Branches[t[2] + 1].States,
                          states[t[1]].Branches[t[2] + 1].StartAt, {})
\* C9, stated over the valid definitions.
C9_ReachabilityComplete ==
  (pc \in {"run", "done"} /\ Valid(definition.def)) =>
    /\ \A t \in C9_BranchStates :
         C9_OnChain(t) => Cardinality(BranchNodes(nodes, t[1], t[2], t[3])) <= 1
    /\ pc = "done" =>
         /\ \A s \in C9_Reachable : Cardinality(MainNodes(nodes, s)) = 1
         /\ \A t \in C9_BranchStates :
              C9_OnChain(t) => Cardinality(BranchNodes(nodes, t[1], t[2], t[3])) = 1

\* Node ids reachable from the entry marker along emitted edges.
RECURSIVE EdgeClosure(_)
EdgeClosure(set) ==
  LET more == set \cup { edges[k].target : k \in { j \in 1..Len(edges) : edges[j].source \in set } }
  IN IF more = set THEN set ELSE EdgeClosure(more)

\* C10: in a returned non-empty graph every node is reachable from the
\* entry marker by a directed path of edges, the successor of a Parallel
\* without a laid-out branch included.
C10_Connected ==
  (pc = "done" /\ Len(nodes) > 0) => NodeIds \subseteq EdgeClosure({"__START__"})

\* Main-graph states that were laid out by processState, and the edges
\* leaving a node id.
Emitted(s) == s \in DOMAIN states /\ MainNodes(nodes, s) # {}
EdgesFrom(a) == { k \in 1..Len(edges) : edges[k].source = a }
RuleTargets(st) == { st.Choices[k].Next : k \in 1..Len(st.Choices) }
RulesNaming(st, t) == { k \in 1..Len(st.Choices) : st.Choices[k].Next = t }

\* The condition summaries of the rules used here, written out.
C11_Summary(rule) ==
  IF rule = RuleEq(rule.Next) THEN "status = \"ok\""
  ELSE IF rule = RuleGt(rule.Next) THEN "n > 3"
  ELSE "->"
\* A Choice with k rules and a default whose k+1 targets are distinct keys.
C11_Case(s) ==
  /\ Emitted(s) /\ IsChoice(states[s])
  /\ states[s].Default \in DOMAIN states
  /\ RuleTargets(states[s]) \subseteq DOMAIN states
  /\ states[s].Default \notin RuleTargets(states[s])
  /\ Cardinality(RuleTargets(states[s])) = Len(states[s].Choices)

\* C11: such a Choice has exactly k+1 outgoing edges in the returned graph:
\* one per rule, labeled with the rule's condition summary, and exactly one
\* labeled "default", which is dashed.
C11_ChoiceFanOut ==
  pc = "done" =>
    \A s \in DOMAIN states : C11_Case(s) =>
      /\ Cardinality(EdgesFrom(s)) = Len(states[s].Choices) + 1
      /\ \A i \in 1..Len(states[s].Choices) :
           Cardinality({ k \in EdgesFrom(s) :
                           /\ edges[k].target = states[s].Choices[i].Next
                           /\ edges[k].label = C11_Summary(states[s].Choices[i])
                           /\ ~edges[k].dashed }) = 1
      /\ Cardinality({ k \in EdgesFrom(s) :
                         /\ edges[k].target = states[s].Default
                         /\ edges[k].label = "default" /\ edges[k].dashed }) = 1
      /\ Cardinality({ k \in EdgesFrom(s) : edges[k].label = "default" }) = 1
C11_Witness ==
  /\ pc = "done" /\ "A" \in DOMAIN states /\ C11_Case("A")
  /\ Len(states["A"].Choices) = 2
  /\ Cardinality(EdgesFrom("A")) = 3

\* C12: when several rules of a Choice name the same target, the target
\* has one node and each of those rules has its own edge from the Choice
\* to it.
C12_EdgePerRule ==
  pc = "done" =>
    \A s \in DOMAIN states : (Emitted(s) /\ IsChoice(states[s])) =>
      \A t \in RuleTargets(states[s]) \cap DOMAIN states :
        Cardinality(RulesNaming(states[s], t)) > 1 =>
          /\ Cardinality(MainNodes(nodes, t)) = 1
          /\ Cardinality({ k \in EdgesFrom(s) : edges[k].target = t /\ edges[k].label # "default" })
               = Cardinality(RulesNaming(states[s], t))

\* The last state of a branch's next chain (for a chain that does not revisit).
RECURSIVE ChainLast(_, _)
ChainLast(bs, cur) ==
  IF bs[cur].Next \in DOMAIN bs THEN ChainLast(bs, bs[cur].Next) ELSE cur
NextChain(b) ==
  /\ ValidBranch(b)
  /\ ~ChainRevisits(b.States, b.StartAt, {})
  /\ \A s \in DOMAIN b.States : ~IsChoice(b.States[s]) /\ ~IsParallel(b.States[s])
\* The ids of the branch nodes of Parallel p.
BranchIds(p) ==
  { BranchNodeId(p, k - 1, inner) :
      k \in 1..Len(states[p].Branches), inner \in UNION { DOMAIN states[p].Branches[j].States : j \in 1..Len(states[p].Branches) } }
C13_Case(p) ==
  /\ Emitted(p) /\ IsParallel(states[p])
  /\ Len(states[p].Branches) >= 1
  /\ \A k \in 1..Len(states[p].Branches) : NextChain(states[p].Branches[k])
  /\ states[p].Next \in DOMAIN states

\* C13: the successor of a Parallel with n >= 1 branches, each a valid next
\* chain, has exactly one node and exactly n incoming edges from the
\* Parallel's branch nodes: one from the last state of each branch's chain.
C13_ParallelRejoin ==
  pc = "done" =>
    \A p \in DOMAIN states : C13_Case(p) =>
      LET st == states[p] IN
      /\ Cardinality(MainNodes(nodes, st.Next)) = 1
      /\ Cardinality({ k \in 1..Len(edges) :
                         edges[k].target = st.Next /\ edges[k].source \in BranchIds(p) })
           = Len(st.Branches)
      /\ \A i \in 1..Len(st.Branches) :
           Cardinality(EdgesFromTo(BranchNodeId(p, i - 1,
                                     ChainLast(st.Branches[i].States, st.Branches[i].StartAt)),
                                   st.Next)) = 1
C13_Witness ==
  /\ pc = "done" /\ "A" \in DOMAIN states /\ C13_Case("A")
  /\ states["A"].Branches = <<BrChain, BrOne>>
  /\ states["A"].Next = "B"
  /\ EdgesFromTo("A_branch_0_Y", "B") # {} /\ EdgesFromTo("A_branch_1_X", "B") # {}

\* The catch targets of the state being processed that are Fail states not
\* yet visited.
C14_FreshFails ==
  { t \in Range(state.Catch) :
      Exists(t) /\ states[t].Type = "Fail" /\ t \notin processedStates }
\* C14: when a state T that is neither a Choice nor a Parallel is processed
\* and one of its catch rules targets a Fail state not yet visited, the Fail
\* node is emitted with x strictly greater than T's x and y equal to T's y.
C14_Step ==
  (pc = "run" /\ top.ph = "regular" /\ ~IsChoice(state) /\ ~IsParallel(state)) =>
    \A t \in C14_FreshFails :
      \A kT \in MainNodes(nodes, top.stateName) :
        /\ Cardinality(MainNodes(nodes', t)) = 1
        /\ \A k \in MainNodes(nodes', t) :
             /\ k > Len(nodes)
             /\ nodes'[k].x > nodes[kT].x
             /\ nodes'[k].y = nodes[kT].y
\* C14, stated: every step that processes the catch rules of T emits the
\* unvisited Fail targets to the right of T, level with it.
C14_FailAside == [][C14_Step]_vars
\* A finished run in which a Task's catch rule put a Fail state beside it.
C14_Witness ==
  /\ pc = "done"
  /\ \E kT \in 1..Len(nodes) : \E k \in 1..Len(nodes) : \E e \in 1..Len(edges) :
       /\ nodes[kT].type = "Task" /\ nodes[k].type = "Fail"
       /\ edges[e].source = nodes[kT].id /\ edges[e].target = nodes[k].id
       /\ edges[e].label = "error"
       /\ nodes[k].x = nodes[kT].x + HORIZONTAL_SPACING /\ nodes[k].y = nodes[kT].y

\* C16: in the graph returned for a valid definition no two nodes have the
\* same (x, y).
C16_DistinctPositions ==
  (pc = "done" /\ Valid(definition.def)) =>
    \A k \in 1..Len(nodes) : \A j \in 1..Len(nodes) :
      (nodes[k].x = nodes[j].x /\ nodes[k].y = nodes[j].y) => k = j

\* The exit markers of main-graph state s, and those below node k.
ExitMarkers(s) == { k \in 1..Len(nodes) : nodes[k].id = EndNodeId(s) }
\* C17: in the graph returned for a valid definition, an emitted state with
\* the End flag and no Next, of whatever kind, has exactly one exit marker,
\* below it, and exactly one edge to it; a state without the End flag has
\* none.
C17_ExitMarkers ==
  (pc = "done" /\ Valid(definition.def)) =>
    \A s \in DOMAIN states : Emitted(s) =>
      IF states[s].End /\ states[s].Next = ""
      THEN /\ Cardinality(ExitMarkers(s)) = 1
           /\ \A k \in ExitMarkers(s) : \A kS \in MainNodes(nodes, s) :
                nodes[k].x = nodes[kS].x /\ nodes[k].y > nodes[kS].y
           /\ Cardinality(EdgesFromTo(s, EndNodeId(s))) = 1
      ELSE ~states[s].End => ExitMarkers(s) = {}

\* C18: in the graph returned for a valid definition, a Choice emitted as a
\* branch node of a Parallel has each of its rule targets emitted as a node
\* of the same branch, with an edge from the Choice's node.
C18_BranchDispatch ==
  (pc = "done" /\ Valid(definition.def)) =>
    \A p \in DOMAIN states : (Emitted(p) /\ IsParallel(states[p])) =>
      \A i \in 1..Len(states[p].Branches) :
        LET bs == states[p].Branches[i].States IN
        \A c \in DOMAIN bs :
          (IsChoice(bs[c]) /\ BranchNodes(nodes, p, i - 1, c) # {}) =>
            \A t \in RuleTargets(bs[c]) \cap DOMAIN bs :
              /\ BranchNodes(nodes, p, i - 1, t) # {}
              /\ EdgesFromTo(BranchNodeId(p, i - 1, c), BranchNodeId(p, i - 1, t)) # {}

\* C15: an invocation on a valid definition returns the same set of nodes,
\* positions included, and the same set of edges as every earlier invocation
\* on that definition, whether it was the one just before or others came in
\* between; and no step of an invocation changes its input.
C15_SameResult ==
  (pc = "done" /\ IsDefinition(input) /\ Valid(input.def)) =>
    \A k \in 1..Len(earlier) :
      earlier[k].input = input => earlier[k].result = ResultOf(pc, nodes, edges)
C15_InputKept == calls' = calls => input' = input
C15_Deterministic == []C15_SameResult /\ [][C15_InputKept]_vars
\* The third invocation, on the definition of the first, after one on
\* another definition, has returned a graph with branch and choice nodes.
C15_Witness ==
  /\ pc = "done" /\ Len(earlier) = 2
  /\ IsDefinition(input) /\ Valid(input.def)
  /\ earlier[1].input = input /\ earlier[2].input # input
  /\ earlier[2].result.returned /\ Cardinality(earlier[2].result.nodes) > 1
  /\ Len(nodes) > 5

\* C19: once no connection check is in flight, isChecking is false and
\* isConnected and lastError are what the check started last found.
C19_LastCheckWins ==
  (started > 0 /\ inflight = {}) =>
    /\ ~isChecking
    /\ isConnected = outcome[started].isConnected
    /\ lastError = outcome[started].lastError
====
